---- MODULE Spec2Model ----
(***************************************************************************)
(* A model of the connection engine of ssh-connector:                      *)
(*   SSHClient (src/src/ssh_client.py)            -- the Session           *)
(*   TunnelManager (src/src/tunnel_manager.py)    -- the ForwardRegistry   *)
(*   ConnectionMonitor (src/src/connection_monitor.py) -- the Supervisor   *)
(*   MainWindow.connect_action / disconnect_action (src/src/ui/main_window *)
(*   .py) -- the external caller that drives the three of them.            *)
(*                                                                         *)
(* Every Python thread is a process with a call stack stk[t] (the head is  *)
(* the statement the thread is about to run) and a record of locals        *)
(* loc[t].  One action is one step of one thread between two accesses to   *)
(* shared state; a step that blocks (a lock, a join, a network call) is    *)
(* enabled when the call can return.  Event.wait(timeout=..) and           *)
(* accept(timeout=..) can return on their timeout; a join(timeout=..)      *)
(* returns on its timeout only when the joined thread is inside a call     *)
(* that outlasts it.                                                       *)
(*                                                                         *)
(* ConnectionMonitor and MainWindow call SSHClient.connect with a          *)
(* passphrase argument that the connect() of ssh_client.py does not        *)
(* declare; the model runs the body of connect() for that call and the     *)
(* passphrase plays no part in it.                                         *)
(***************************************************************************)
EXTENDS Integers, Sequences, FiniteSets, TLC

\* ---------------------------------------------------------------- bounds
MaxT == 3          \* paramiko clients (transports) created in one run
MaxW == 2          \* accept workers spawned in one run
MaxChan == 1       \* forwarded channels the server opens in one run
MaxAttempt == 3    \* cap of the reconnect attempt counter
MaxObs == 2        \* cap of the counters of events and requests
MaxClicks == 2     \* connect / disconnect actions the user triggers in one run
MaxCalls == 3      \* calls of the TunnelManager's API made in one run

\* ------------------------------------------------------------- constants
Threads == {"ui", "m1", "m2"}
MonThreads == {"m1", "m2"}
Ports == {"p1", "p2"}

DISCONNECTED == "disconnected"
CONNECTING == "connecting"
CONNECTED == "connected"
ERROR == "error"
ConnectionState == {DISCONNECTED, CONNECTING, CONNECTED, ERROR}

INACTIVE == "inactive"
STARTING == "starting"
ACTIVE == "active"
TERROR == "terror"
TunnelState == {INACTIVE, STARTING, ACTIVE, TERROR}

STOPPED == "stopped"
RUNNING == "running"
RECONNECTING == "reconnecting"
MonitorState == {STOPPED, RUNNING, RECONNECTING}

VARIABLES
    \* SSHClient
    sState,        \* self._state
    sErr,          \* self._error_message ("none" is None)
    sClient,       \* self._client: id of a paramiko client, 0 is None
    sTransport,    \* self._transport: id of a transport, 0 is None
    sLock,         \* self._lock: "free" or the thread that holds it
    tStat,         \* per paramiko client: "unused", "new" (created, handshake
                   \*   not finished), "up" (transport active), "dead"
                   \*   (transport lost, is_active() false), "closed" (close())
    \* MainWindow
    connEnabled,   \* tray_connect_action.isEnabled()
    discEnabled,   \* tray_disconnect_action.isEnabled()
    clicks,        \* actions the user has triggered (calls of the
                   \*   TunnelManager's API made from outside) so far
    \* TunnelManager
    mTransport,    \* self._transport
    tunnels,       \* self._tunnels: port -> TunnelStatus [rule, state,
                   \*   err, count, tr]; state "absent" is no entry
    tunnelThreads, \* self._tunnel_threads: port -> worker id, 0 is no entry
    stopEvents,    \* self._stop_events: port -> event id, 0 is no entry
    portOrder,     \* insertion order of the keys of self._tunnels
    lastEv,        \* the last ForwardEvent given to the callbacks
    obs,           \* counters (when cfg.observe): ForwardEvents emitted,
                   \*   port-forward requests and cancel requests issued
    \* accept workers and splice tasks
    wk,            \* worker id -> [port, rule, pc ("unused", "accept":
                   \*   inside self._transport.accept; a thread that has
                   \*   exited is "unused" again),
                   \*   ev (its stop event is set), on (the transport whose
                   \*   accept it is inside, 0 when self._transport was
                   \*   None), tr (the transport bound when it was started)]
    chan,          \* forwarded channel id -> [tr, dport, st, rule, by, wtr]:
                   \*   "unused", "queued" (waiting in accept()), "open"
                   \*   (spliced by worker `by` to the local port of
                   \*   `rule`; wtr is the transport bound when that
                   \*   worker was started), "erred" (open, after an I/O
                   \*   error the splice loop dropped), "closed"
    \* the server
    srvFwd,        \* transport -> ports the server listens on for it
    \* ConnectionMonitor
    monState,      \* self._state
    monThread,     \* self._monitor_thread: a thread of MonThreads or "none"
    monStop,       \* self._stop_event.is_set()
    curAttempt,    \* self._current_attempt
    passphrase,    \* self._key_passphrase is not None
    \* threads
    stk,           \* thread -> call stack of labels, <<>> is not running
    loc,           \* thread -> locals
    \* configuration
    cfg            \* AppConfig and the environment of the run (immutable)

sessVars == <<sState, sErr, sClient, sTransport, sLock, tStat>>
uiVars == <<connEnabled, discEnabled, clicks>>
tmVars == <<mTransport, tunnels, tunnelThreads, stopEvents, portOrder, lastEv,
           obs>>
wkVars == <<wk, chan>>
srvVars == <<srvFwd>>
monVars == <<monState, monThread, monStop, curAttempt, passphrase>>
thrVars == <<stk, loc>>
envVars == <<cfg>>
vars == <<sessVars, uiVars, tmVars, wkVars, srvVars, monVars, thrVars, envVars>>

\* ------------------------------------------------------- stack and locals
Top(t) == IF stk[t] = <<>> THEN "none" ELSE Head(stk[t])
Goto(t, l) == [stk EXCEPT ![t] = <<l>> \o Tail(@)]
Return(t) == [stk EXCEPT ![t] = Tail(@)]
Call(t, callee, cont) == [stk EXCEPT ![t] = <<callee, cont>> \o Tail(@)]

LocInit ==
    [ret |-> "none",    \* how the last call ended: "ok", "done" (of
                        \*   disconnect), "raise" (an exception left
                        \*   it), "true", "false"
     err |-> "none",    \* connect: the exception being handled
     cl |-> 0,          \* connect: the client the handshake runs on
     ns |-> "none",     \* _set_state: state argument
     nm |-> "none",     \* _set_state: error_message argument
     k |-> "none",      \* _set_state: label to continue at, "ret" to return
     port |-> "none",   \* stop_tunnel: remote_port
     rule |-> 0,        \* start_tunnel / stop_tunnel: rule (index in cfg.rules)
     th |-> 0,          \* stop_tunnel: thread being joined
     ports |-> <<>>,    \* stop_all_tunnels: ports left to stop
     ri |-> 0,          \* start_all_tunnels: index of the next rule
     res |-> [p \in Ports |-> "none"],   \* start_all_tunnels: results
     delay |-> 0,       \* _handle_disconnect: delay
     af |-> 0,          \* _handle_disconnect: 0 until a connect() of the
                        \*   episode fails in authentication, then 1 plus
                        \*   the attempts started since (not a variable of
                        \*   the code)
     cc |-> FALSE]      \* disconnect: it was called while a connect() of
                        \*   another thread was in progress, and no connect()
                        \*   has begun since (not a variable of the code)

\* ------------------------------------------------------------- SSHClient
TransportActive(tr) == tr # 0 /\ tStat[tr] = "up"

\* SSHClient._is_transport_active
IsTransportActive == TransportActive(sTransport)

\* SSHClient.is_connected
IsConnected == sState = CONNECTED /\ IsTransportActive

\* SSHClient.get_transport
GetTransport == IF IsTransportActive THEN sTransport ELSE 0

\* SSHClient.check_connection: send_ignore fails on a lost transport
CheckConnection == IsTransportActive

\* paramiko SSHClient.close(): closes the transport the client holds
CloseClient(c) ==
    IF c # 0 /\ tStat[c] \in {"up", "dead"}
    THEN [tStat EXCEPT ![c] = "closed"] ELSE tStat

\* paramiko SSHClient.get_transport(): None before the handshake and after close
ClientTransport(c) == IF tStat[c] \in {"up", "dead"} THEN c ELSE 0

FreshClients == {c \in 1..MaxT : tStat[c] = "unused"}
NewClient == CHOOSE c \in FreshClients : \A d \in FreshClients : c <= d

\* MainWindow._on_connection_state_changed: the tray actions follow the state
ConnEnabledAfter(s) == IF s = CONNECTED THEN FALSE
                       ELSE IF s \in {DISCONNECTED, ERROR} THEN TRUE
                       ELSE connEnabled
DiscEnabledAfter(s) == IF s = CONNECTED THEN TRUE
                       ELSE IF s \in {DISCONNECTED, ERROR} THEN FALSE
                       ELSE discEnabled

\* thread u is inside connect(), past its guard
InConnect(u) ==
    \/ Top(u) \in {"connect_key", "connect_handshake", "connect_transport",
                   "connect_cleanup"}
    \/ Top(u) \in {"set_state", "set_state_msg"} /\ loc[u].ret # "done"

\* calling self._set_state(s, m) and continuing at k ("ret": return r after it)
SetStateCall(t, s, m, k, r) ==
    /\ stk' = Goto(t, "set_state")
    /\ loc' = [loc EXCEPT ![t].ns = s, ![t].nm = m, ![t].k = k, ![t].ret = r,
                          ![t].err = "none", ![t].cl = 0]

\* SSHClient._set_state, first statement: self._state = state
SetStateA(t) ==
    /\ Top(t) = "set_state"
    /\ sState' = loc[t].ns
    /\ stk' = Goto(t, "set_state_msg")
    /\ UNCHANGED <<sErr, sClient, sTransport, sLock, tStat, uiVars, tmVars,
                   wkVars, srvVars, monVars, loc, envVars>>

\* SSHClient._set_state, the rest: self._error_message = error_message, then
\* the callbacks; connect() leaves its `with self._lock` block right after
SetStateB(t) ==
    /\ Top(t) = "set_state_msg"
    /\ sErr' = loc[t].nm
    /\ connEnabled' = ConnEnabledAfter(loc[t].ns)
    /\ discEnabled' = DiscEnabledAfter(loc[t].ns)
    /\ sLock' = IF sLock = t THEN "free" ELSE sLock
    /\ stk' = IF loc[t].k = "ret" THEN Return(t) ELSE Goto(t, loc[t].k)
    /\ loc' = [loc EXCEPT ![t].ns = "none", ![t].nm = "none", ![t].k = "none"]
    /\ UNCHANGED <<sState, sClient, sTransport, tStat, clicks, tmVars,
                   wkVars, srvVars, monVars, envVars>>

\* a connect() whose guard returns early on CONNECTED only, so that a second
\* caller enters while the first is connecting
ConnectGuardConnectedOnly(t) ==
    /\ Top(t) = "connect"
    /\ sLock = "free"
    /\ IF sState = CONNECTED
       THEN /\ stk' = Return(t)
            /\ loc' = [loc EXCEPT ![t].ret = "ok"]
            /\ UNCHANGED sLock
       ELSE /\ sLock' = t
            /\ stk' = Goto(t, "set_state")
            /\ loc' = [u \in Threads |->
                          IF u = t
                          THEN [loc[t] EXCEPT !.ns = CONNECTING, !.nm = "none",
                                              !.k = "connect_key",
                                              !.ret = "none", !.err = "none",
                                              !.cl = 0, !.cc = FALSE]
                          ELSE [loc[u] EXCEPT !.cc = FALSE]]
    /\ UNCHANGED <<sState, sErr, sClient, sTransport, tStat, uiVars, tmVars,
                   wkVars, srvVars, monVars, envVars>>

\* SSHClient.connect, the guard under the lock: return when Connecting or
\* Connected, else go on, holding the lock, to _set_state(CONNECTING)
ConnectGuard(t) ==
    /\ Top(t) = "connect"
    /\ sLock = "free"
    /\ IF sState \in {CONNECTING, CONNECTED}
       THEN /\ stk' = Return(t)
            /\ loc' = [loc EXCEPT ![t].ret = "ok"]
            /\ UNCHANGED sLock
       ELSE /\ sLock' = t
            /\ stk' = Goto(t, "set_state")
            /\ loc' = [u \in Threads |->
                          IF u = t
                          THEN [loc[t] EXCEPT !.ns = CONNECTING, !.nm = "none",
                                              !.k = "connect_key",
                                              !.ret = "none", !.err = "none",
                                              !.cl = 0, !.cc = FALSE]
                          ELSE [loc[u] EXCEPT !.cc = FALSE]]
    /\ UNCHANGED <<sState, sErr, sClient, sTransport, tStat, uiVars, tmVars,
                   wkVars, srvVars, monVars, envVars>>

\* SSHClient.connect: the key file is missing ("keymissing") or loads as no
\* key type ("keyload"); cfg.key is the state of the key file in this run
ConnectKeyFails(t) ==
    /\ Top(t) = "connect_key"
    /\ cfg.key # "ok"
    /\ loc' = [loc EXCEPT ![t].err = cfg.key]
    /\ stk' = Goto(t, "connect_cleanup")
    /\ UNCHANGED <<sessVars, uiVars, tmVars, wkVars, srvVars, monVars, envVars>>

\* SSHClient.connect: the key loads; self._client = paramiko.SSHClient() and
\* the handshake starts on it
ConnectNewClient(t) ==
    /\ Top(t) = "connect_key"
    /\ cfg.key = "ok"
    /\ FreshClients # {}
    /\ sClient' = NewClient
    /\ tStat' = [tStat EXCEPT ![NewClient] = "new"]
    /\ loc' = [loc EXCEPT ![t].cl = NewClient]
    /\ stk' = Goto(t, "connect_handshake")
    /\ UNCHANGED <<sState, sErr, sTransport, sLock, uiVars, tmVars,
                   wkVars, srvVars, monVars, envVars>>

\* SSHClient.connect: self._client.connect(...) returns
ConnectHandshakeOk(t) ==
    /\ Top(t) = "connect_handshake"
    /\ tStat' = [tStat EXCEPT ![loc[t].cl] = "up"]
    /\ stk' = Goto(t, "connect_transport")
    /\ UNCHANGED <<sState, sErr, sClient, sTransport, sLock, uiVars, tmVars,
                   wkVars, srvVars, monVars, loc, envVars>>

\* SSHClient.connect: self._client.connect(...) raises (network, auth)
ConnectHandshakeFails(t) ==
    /\ Top(t) = "connect_handshake"
    /\ \E e \in cfg.failures \cap {"net", "auth"} :
          loc' = [loc EXCEPT ![t].err = e]
    /\ stk' = Goto(t, "connect_cleanup")
    /\ UNCHANGED <<sessVars, uiVars, tmVars, wkVars, srvVars, monVars, envVars>>

\* SSHClient.connect: self._transport = self._client.get_transport(); an
\* AttributeError when self._client is None by now
ConnectTransport(t) ==
    /\ Top(t) = "connect_transport"
    /\ IF sClient = 0
       THEN /\ loc' = [loc EXCEPT ![t].err = "attr"]
            /\ stk' = Goto(t, "connect_cleanup")
            /\ UNCHANGED sTransport
       ELSE /\ sTransport' = ClientTransport(sClient)
            /\ SetStateCall(t, CONNECTED, "none", "ret", "ok")
    /\ UNCHANGED <<sState, sErr, sClient, sLock, tStat, uiVars, tmVars,
                   wkVars, srvVars, monVars, envVars>>

\* SSHClient._cleanup
Cleanup ==
    /\ tStat' = CloseClient(sClient)
    /\ srvFwd' = IF sClient # 0 THEN [srvFwd EXCEPT ![sClient] = {}] ELSE srvFwd
    /\ sClient' = 0
    /\ sTransport' = 0

\* SSHClient.connect, except branch: self._cleanup(), then
\* _set_state(ERROR, str(e)) and raise (the caller receives the exception e)
ConnectCleanup(t) ==
    /\ Top(t) = "connect_cleanup"
    /\ Cleanup
    /\ stk' = Goto(t, "set_state")
    /\ loc' = [loc EXCEPT ![t].ns = ERROR, ![t].nm = loc[t].err, ![t].k = "ret",
                          ![t].ret = "raise", ![t].cl = 0]
    /\ UNCHANGED <<sState, sErr, sLock, uiVars, tmVars,
                   wkVars, monVars, envVars>>

\* a disconnect() without the early return on DISCONNECTED
DisconnectGuardAlways(t) ==
    /\ Top(t) = "disconnect"
    /\ sLock = "free"
    /\ stk' = Goto(t, "disconnect_cleanup")
    /\ loc' = [loc EXCEPT ![t].cc = \E u \in Threads \ {t} : InConnect(u)]
    /\ UNCHANGED <<sessVars, uiVars, tmVars, wkVars, srvVars, monVars, envVars>>

\* SSHClient.disconnect, the guard under the lock
DisconnectGuard(t) ==
    /\ Top(t) = "disconnect"
    /\ sLock = "free"
    /\ IF sState = DISCONNECTED
       THEN /\ stk' = Return(t)
            /\ loc' = [loc EXCEPT ![t].ret = "done", ![t].cc = FALSE]
       ELSE /\ stk' = Goto(t, "disconnect_cleanup")
            /\ loc' = [loc EXCEPT ![t].cc =
                                     \E u \in Threads \ {t} : InConnect(u)]
    /\ UNCHANGED <<sessVars, uiVars, tmVars, wkVars, srvVars, monVars, envVars>>

\* SSHClient.disconnect: self._cleanup(), then _set_state(DISCONNECTED)
DisconnectCleanup(t) ==
    /\ Top(t) = "disconnect_cleanup"
    /\ Cleanup
    /\ SetStateCall(t, DISCONNECTED, "none", "ret", "done")
    /\ UNCHANGED <<sState, sErr, sLock, uiVars, tmVars,
                   wkVars, monVars, envVars>>

\* the server or the network drops a live transport (and the server its
\* listeners for it)
TransportLost ==
    /\ \E c \in 1..MaxT :
          /\ tStat[c] = "up"
          /\ tStat' = [tStat EXCEPT ![c] = "dead"]
          /\ srvFwd' = [srvFwd EXCEPT ![c] = {}]
    /\ UNCHANGED <<sState, sErr, sClient, sTransport, sLock, uiVars, tmVars,
                   wkVars, monVars, thrVars, envVars>>

\* --------------------------------------------------------- TunnelManager
Rules == cfg.rules
RemotePort(r) == Rules[r].remote_port

NoTunnel == [rule |-> 0, state |-> "absent", err |-> "none", count |-> 0,
             tr |-> 0]

\* TunnelStatus(rule=rule, state=state, error_message=err); tr records the
\* transport bound when a forward is started (not a field of the code)
TunnelStatus(r, s, e) ==
    [rule |-> r, state |-> s, err |-> e, count |-> 0,
     tr |-> IF s = INACTIVE THEN 0 ELSE mTransport]

Bump(n) == IF cfg.observe /\ n < MaxObs THEN n + 1 ELSE n

\* TunnelManager._notify_callbacks(rule, state, error)
Notify(p, s) ==
    /\ lastEv' = [port |-> p, state |-> s]
    /\ obs' = [obs EXCEPT !.ev = Bump(@)]

\* dict insertion order of self._tunnels
OrderAfterInsert(p) ==
    IF tunnels[p].state = "absent" THEN Append(portOrder, p) ELSE portOrder

\* thread objects nothing refers to
FreshWorkers == {w \in 1..MaxW : /\ wk[w].pc = "unused"
                                 /\ \A p \in Ports : tunnelThreads[p] # w
                                 /\ \A t \in Threads : loc[t].th # w}
NewWorker == CHOOSE w \in FreshWorkers : \A v \in FreshWorkers : w <= v

\* threads between a granted request and the start of its worker
AtStartThread == {u \in Threads : Top(u) = "start_thread"}

\* a start_tunnel without the already-active check
StartTunnelGuardNoActiveCheck(t) ==
    /\ Top(t) = "start_tunnel"
    /\ LET p == RemotePort(loc[t].rule) IN
       IF ~TransportActive(mTransport)
       THEN /\ stk' = Return(t)
            /\ loc' = [loc EXCEPT ![t].ret = "false", ![t].rule = 0]
            /\ UNCHANGED <<tunnels, portOrder, lastEv, obs>>
       ELSE /\ tunnels' = [tunnels EXCEPT
                              ![p] = TunnelStatus(loc[t].rule, STARTING, "none")]
            /\ portOrder' = OrderAfterInsert(p)
            /\ Notify(p, STARTING)
            /\ stk' = Goto(t, "start_request")
            /\ UNCHANGED loc
    /\ UNCHANGED <<sessVars, uiVars, mTransport, tunnelThreads, stopEvents,
                   wkVars, srvVars, monVars, envVars>>

\* TunnelManager.start_tunnel: the transport check, then under the lock the
\* already-active check and the STARTING entry, then the STARTING event
StartTunnelGuard(t) ==
    /\ Top(t) = "start_tunnel"
    /\ LET p == RemotePort(loc[t].rule) IN
       IF ~TransportActive(mTransport)
       THEN /\ stk' = Return(t)
            /\ loc' = [loc EXCEPT ![t].ret = "false", ![t].rule = 0]
            /\ UNCHANGED <<tunnels, portOrder, lastEv, obs>>
       ELSE IF tunnels[p].state = ACTIVE
       THEN /\ stk' = Return(t)
            /\ loc' = [loc EXCEPT ![t].ret = "true", ![t].rule = 0]
            /\ UNCHANGED <<tunnels, portOrder, lastEv, obs>>
       ELSE /\ tunnels' = [tunnels EXCEPT
                              ![p] = TunnelStatus(loc[t].rule, STARTING, "none")]
            /\ portOrder' = OrderAfterInsert(p)
            /\ Notify(p, STARTING)
            /\ stk' = Goto(t, "start_request")
            /\ UNCHANGED loc
    /\ UNCHANGED <<sessVars, uiVars, mTransport, tunnelThreads, stopEvents,
                   wkVars, srvVars, monVars, envVars>>

\* TunnelManager.start_tunnel: self._transport.request_port_forward succeeds
\* (the server grants a port it is not yet listening on for this transport)
StartTunnelRequestOk(t) ==
    /\ Top(t) = "start_request"
    /\ TransportActive(mTransport)
    /\ RemotePort(loc[t].rule) \notin srvFwd[mTransport]
    /\ Cardinality(FreshWorkers) > Cardinality(AtStartThread)
    /\ srvFwd' = [srvFwd EXCEPT
                     ![mTransport] = @ \cup {RemotePort(loc[t].rule)}]
    /\ obs' = [obs EXCEPT !.req = Bump(@)]
    /\ stk' = Goto(t, "start_thread")
    /\ UNCHANGED <<sessVars, uiVars, mTransport, tunnels, tunnelThreads,
                   stopEvents, portOrder, lastEv, wkVars, monVars, loc,
                   envVars>>

\* TunnelManager.start_tunnel: request_port_forward raises.  A refusal or a
\* lost transport is a paramiko.SSHException: the entry becomes ERROR, the
\* ERROR event is emitted and start_tunnel returns False.  With
\* self._transport None by now the call raises AttributeError, which the
\* `except paramiko.SSHException` does not catch.
StartTunnelRequestFails(t) ==
    /\ Top(t) = "start_request"
    /\ LET p == RemotePort(loc[t].rule) IN
       IF mTransport = 0
       THEN /\ stk' = Return(t)
            /\ loc' = [loc EXCEPT ![t].ret = "raise", ![t].rule = 0]
            /\ UNCHANGED <<tunnels, lastEv, obs>>
       ELSE /\ tunnels' = [tunnels EXCEPT
                              ![p] = TunnelStatus(loc[t].rule, TERROR, "msg")]
            /\ lastEv' = [port |-> p, state |-> TERROR]
            /\ obs' = [obs EXCEPT !.ev = Bump(@),
                                  !.req = IF TransportActive(mTransport)
                                          THEN Bump(@) ELSE @]
            /\ stk' = Return(t)
            /\ loc' = [loc EXCEPT ![t].ret = "false", ![t].rule = 0]
    /\ UNCHANGED <<sessVars, uiVars, mTransport, tunnelThreads, stopEvents,
                   portOrder, wkVars, srvVars, monVars, envVars>>

\* TunnelManager.start_tunnel: the stop event and the handler thread are
\* registered under the port and the thread is started; the worker passes
\* its first loop test and enters self._transport.accept
StartTunnelThread(t) ==
    /\ Top(t) = "start_thread"
    /\ LET p == RemotePort(loc[t].rule)
           w == NewWorker IN
       /\ stopEvents' = [stopEvents EXCEPT ![p] = w]
       /\ tunnelThreads' = [tunnelThreads EXCEPT ![p] = w]
       /\ wk' = [wk EXCEPT ![w] = [port |-> p, rule |-> loc[t].rule,
                                   pc |-> "accept", ev |-> FALSE,
                                   on |-> mTransport, tr |-> mTransport]]
    /\ stk' = Goto(t, "start_active")
    /\ UNCHANGED <<sessVars, uiVars, mTransport, tunnels, portOrder, lastEv,
                   obs, chan, srvVars, monVars, loc, envVars>>

\* TunnelManager.start_tunnel: under the lock the entry's state becomes
\* ACTIVE, then the ACTIVE event; returns True
StartTunnelActive(t) ==
    /\ Top(t) = "start_active"
    /\ LET p == RemotePort(loc[t].rule) IN
       /\ tunnels' = [tunnels EXCEPT ![p].state = ACTIVE]
       /\ Notify(p, ACTIVE)
    /\ stk' = Return(t)
    /\ loc' = [loc EXCEPT ![t].ret = "true", ![t].rule = 0]
    /\ UNCHANGED <<sessVars, uiVars, mTransport, tunnelThreads, stopEvents,
                   portOrder, wkVars, srvVars, monVars, envVars>>

\* TunnelManager.stop_tunnel: under the lock, return when the port has no
\* entry, else read the entry's rule
StopTunnelGuard(t) ==
    /\ Top(t) = "stop_tunnel"
    /\ LET p == loc[t].port IN
       IF tunnels[p].state = "absent"
       THEN /\ stk' = Return(t)
            /\ loc' = [loc EXCEPT ![t].ret = "ok", ![t].port = "none"]
       ELSE /\ stk' = Goto(t, "stop_event")
            /\ loc' = [loc EXCEPT ![t].rule = tunnels[p].rule]
    /\ UNCHANGED <<sessVars, uiVars, tmVars, wkVars, srvVars, monVars, envVars>>

\* TunnelManager.stop_tunnel: `if remote_port in self._stop_events`
StopTunnelEventCheck(t) ==
    /\ Top(t) = "stop_event"
    /\ stk' = Goto(t, IF stopEvents[loc[t].port] # 0
                      THEN "stop_event_set" ELSE "stop_thread")
    /\ UNCHANGED <<sessVars, uiVars, tmVars, wkVars, srvVars, monVars, loc,
                   envVars>>

\* TunnelManager.stop_tunnel: self._stop_events[remote_port].set() and
\* del self._stop_events[remote_port]; a KeyError when the entry is gone
StopTunnelEventSet(t) ==
    /\ Top(t) = "stop_event_set"
    /\ LET p == loc[t].port IN
       IF stopEvents[p] = 0
       THEN /\ stk' = Return(t)
            /\ loc' = [loc EXCEPT ![t].ret = "raise", ![t].rule = 0,
                                  ![t].port = "none"]
            /\ UNCHANGED <<stopEvents, wk>>
       ELSE /\ wk' = [wk EXCEPT ![stopEvents[p]].ev = TRUE]
            /\ stopEvents' = [stopEvents EXCEPT ![p] = 0]
            /\ stk' = Goto(t, "stop_thread")
            /\ UNCHANGED loc
    /\ UNCHANGED <<sessVars, uiVars, mTransport, tunnels, tunnelThreads,
                   portOrder, lastEv, obs, chan, srvVars, monVars, envVars>>

\* TunnelManager.stop_tunnel: `if remote_port in self._tunnel_threads`,
\* thread = self._tunnel_threads[remote_port]
StopTunnelThreadCheck(t) ==
    /\ Top(t) = "stop_thread"
    /\ LET p == loc[t].port IN
       IF tunnelThreads[p] # 0
       THEN /\ stk' = Goto(t, "stop_join")
            /\ loc' = [loc EXCEPT ![t].th = tunnelThreads[p]]
       ELSE /\ stk' = Goto(t, "stop_cancel")
            /\ UNCHANGED loc
    /\ UNCHANGED <<sessVars, uiVars, tmVars, wkVars, srvVars, monVars, envVars>>

\* thread.join(timeout=2.0) on an accept worker returns: the worker has
\* exited (its accept(timeout=1.0) and the loop test after it take less than
\* the join allows)
WorkerJoinReturns(w) == wk[w].pc # "accept"

\* TunnelManager.stop_tunnel: thread.join(timeout=2.0) returns, then
\* del self._tunnel_threads[remote_port]; a KeyError when the entry is gone
StopTunnelJoin(t) ==
    /\ Top(t) = "stop_join"
    /\ WorkerJoinReturns(loc[t].th)
    /\ LET p == loc[t].port IN
       IF tunnelThreads[p] = 0
       THEN /\ stk' = Return(t)
            /\ loc' = [loc EXCEPT ![t].ret = "raise", ![t].rule = 0,
                                  ![t].port = "none", ![t].th = 0]
            /\ UNCHANGED tunnelThreads
       ELSE /\ tunnelThreads' = [tunnelThreads EXCEPT ![p] = 0]
            /\ stk' = Goto(t, "stop_cancel")
            /\ UNCHANGED loc
    /\ UNCHANGED <<sessVars, uiVars, mTransport, tunnels, stopEvents,
                   portOrder, lastEv, obs, wkVars, srvVars, monVars, envVars>>

\* TunnelManager.stop_tunnel: cancel_port_forward when the transport is
\* active (an exception of it is logged and dropped)
StopTunnelCancel(t) ==
    /\ Top(t) = "stop_cancel"
    /\ IF TransportActive(mTransport)
       THEN /\ srvFwd' = [srvFwd EXCEPT ![mTransport] = @ \ {loc[t].port}]
            /\ obs' = [obs EXCEPT !.cancel = Bump(@)]
       ELSE UNCHANGED <<srvFwd, obs>>
    /\ stk' = Goto(t, "stop_inactive")
    /\ UNCHANGED <<sessVars, uiVars, mTransport, tunnels, tunnelThreads,
                   stopEvents, portOrder, lastEv, wkVars, monVars, loc,
                   envVars>>

\* TunnelManager.stop_tunnel: under the lock the entry is replaced by an
\* INACTIVE one, then the INACTIVE event; returns
StopTunnelInactive(t) ==
    /\ Top(t) = "stop_inactive"
    /\ LET p == loc[t].port IN
       /\ tunnels' = [tunnels EXCEPT
                         ![p] = TunnelStatus(loc[t].rule, INACTIVE, "none")]
       /\ Notify(p, INACTIVE)
    /\ stk' = Return(t)
    /\ loc' = [loc EXCEPT ![t].ret = "ok", ![t].rule = 0, ![t].port = "none"]
    /\ UNCHANGED <<sessVars, uiVars, mTransport, tunnelThreads, stopEvents,
                   portOrder, wkVars, srvVars, monVars, envVars>>

\* calling TunnelManager.stop_all_tunnels and continuing at cont: under the
\* lock ports = list(self._tunnels.keys()), then stop_tunnel(port) for each
CallStopAll(t, cont) ==
    IF portOrder = <<>>
    THEN /\ stk' = Goto(t, cont)
         /\ loc' = [loc EXCEPT ![t].ret = "ok", ![t].ports = <<>>]
    ELSE /\ stk' = [stk EXCEPT ![t] =
                       <<"stop_tunnel", "stop_all_next", cont>> \o Tail(@)]
         /\ loc' = [loc EXCEPT ![t].port = Head(portOrder),
                               ![t].ports = Tail(portOrder),
                               ![t].ret = "none"]

\* TunnelManager.stop_all_tunnels: the next iteration of `for port in ports`;
\* an exception of stop_tunnel leaves the loop and the function
StopAllNext(t) ==
    /\ Top(t) = "stop_all_next"
    /\ IF loc[t].ret = "raise" \/ loc[t].ports = <<>>
       THEN /\ stk' = Return(t)
            /\ UNCHANGED loc
       ELSE /\ stk' = [stk EXCEPT ![t] = <<"stop_tunnel">> \o @]
            /\ loc' = [loc EXCEPT ![t].port = Head(loc[t].ports),
                                  ![t].ports = Tail(loc[t].ports),
                                  ![t].ret = "none"]
    /\ UNCHANGED <<sessVars, uiVars, tmVars, wkVars, srvVars, monVars, envVars>>

\* the first enabled rule at index i or later, Len(Rules) + 1 when none
RECURSIVE NextEnabled(_)
NextEnabled(i) ==
    IF i > Len(Rules) THEN i
    ELSE IF Rules[i].enabled THEN i ELSE NextEnabled(i + 1)

\* calling TunnelManager.start_all_tunnels(rules) and continuing at cont:
\* results = {}, then start_tunnel(rule) for each enabled rule
CallStartAll(t, cont) ==
    LET j == NextEnabled(1) IN
    IF j > Len(Rules)
    THEN /\ stk' = Goto(t, cont)
         /\ loc' = [loc EXCEPT ![t].ret = "ok",
                               ![t].res = [p \in Ports |-> "none"]]
    ELSE /\ stk' = [stk EXCEPT ![t] =
                       <<"start_tunnel", "start_all_next", cont>> \o Tail(@)]
         /\ loc' = [loc EXCEPT ![t].rule = j, ![t].ri = j, ![t].ret = "none",
                               ![t].res = [p \in Ports |-> "none"]]

\* a start_all_tunnels that gives up at the first rule that fails to start
StartAllNextStopOnFailure(t) ==
    /\ Top(t) = "start_all_next"
    /\ LET j == NextEnabled(loc[t].ri + 1)
           r == [loc[t].res EXCEPT ![RemotePort(loc[t].ri)] = loc[t].ret] IN
       IF loc[t].ret = "raise"
       THEN /\ stk' = Return(t)
            /\ loc' = [loc EXCEPT ![t].ri = 0]
       ELSE IF j > Len(Rules) \/ loc[t].ret = "false"
       THEN /\ stk' = Return(t)
            /\ loc' = [loc EXCEPT ![t].res = r, ![t].ret = "ok", ![t].ri = 0]
       ELSE /\ stk' = [stk EXCEPT ![t] = <<"start_tunnel">> \o @]
            /\ loc' = [loc EXCEPT ![t].res = r, ![t].rule = j, ![t].ri = j,
                                  ![t].ret = "none"]
    /\ UNCHANGED <<sessVars, uiVars, tmVars, wkVars, srvVars, monVars, envVars>>

\* TunnelManager.start_all_tunnels: results[rule.remote_port] = the result of
\* start_tunnel, then the next enabled rule; an exception of start_tunnel
\* leaves the loop and the function
StartAllNext(t) ==
    /\ Top(t) = "start_all_next"
    /\ LET j == NextEnabled(loc[t].ri + 1)
           r == [loc[t].res EXCEPT ![RemotePort(loc[t].ri)] = loc[t].ret] IN
       IF loc[t].ret = "raise"
       THEN /\ stk' = Return(t)
            /\ loc' = [loc EXCEPT ![t].ri = 0]
       ELSE IF j > Len(Rules)
       THEN /\ stk' = Return(t)
            /\ loc' = [loc EXCEPT ![t].res = r, ![t].ret = "ok", ![t].ri = 0]
       ELSE /\ stk' = [stk EXCEPT ![t] = <<"start_tunnel">> \o @]
            /\ loc' = [loc EXCEPT ![t].res = r, ![t].rule = j, ![t].ri = j,
                                  ![t].ret = "none"]
    /\ UNCHANGED <<sessVars, uiVars, tmVars, wkVars, srvVars, monVars, envVars>>

\* ------------------------------------------ accept workers, splice tasks
NoWorker == [port |-> "none", rule |-> 0, pc |-> "unused", ev |-> FALSE,
             on |-> 0, tr |-> 0]
NoChan == [tr |-> 0, dport |-> "none", st |-> "unused", rule |-> 0, by |-> 0,
           wtr |-> 0]

\* TunnelManager._handle_tunnel_connections: `while not stop_event.is_set()`
\* after an iteration: the worker exits, or reads self._transport and
\* enters its accept(timeout=1.0) again
WorkerLoopTest(w) ==
    IF wk[w].ev THEN NoWorker
    ELSE [wk[w] EXCEPT !.on = mTransport]

QueuedOn(tr) == {c \in 1..MaxChan : chan[c].st = "queued" /\ chan[c].tr = tr}
FirstQueued(tr) == CHOOSE c \in QueuedOn(tr) : \A d \in QueuedOn(tr) : c <= d

\* the worker's accept() returns a channel, a thread running
\* _forward_connection(channel, rule) is started and the entry's
\* connections_count is incremented; st is what the dial of the local port
\* makes of the channel
WorkerAccepts(w, st) ==
    /\ wk[w].pc = "accept"
    /\ wk[w].on # 0
    /\ QueuedOn(wk[w].on) # {}
    /\ LET c == FirstQueued(wk[w].on)
           p == wk[w].port IN
       /\ chan' = [chan EXCEPT ![c] =
                      IF st = "open"
                      THEN [@ EXCEPT !.st = "open", !.rule = wk[w].rule,
                                     !.by = w, !.wtr = wk[w].tr]
                      ELSE [NoChan EXCEPT !.st = "closed", !.by = w]]
       /\ tunnels' = IF tunnels[p].state # "absent"
                     THEN [tunnels EXCEPT ![p].count = @ + 1]
                     ELSE tunnels
    /\ wk' = [wk EXCEPT ![w] = WorkerLoopTest(w)]
    /\ UNCHANGED <<sessVars, uiVars, mTransport, tunnelThreads, stopEvents,
                   portOrder, lastEv, obs, srvVars, monVars, thrVars, envVars>>

\* TunnelManager._handle_tunnel_connections and _forward_connection: a
\* channel (of whichever forward of the transport) is accepted and the local
\* port is dialled; the splice loop runs
WorkerAcceptChannel(w) == WorkerAccepts(w, "open")

\* a failed dial that marks the forward of the worker as failed
WorkerAcceptDialFailsMarksError(w) ==
    /\ wk[w].pc = "accept"
    /\ wk[w].on # 0
    /\ QueuedOn(wk[w].on) # {}
    /\ chan' = [chan EXCEPT ![FirstQueued(wk[w].on)] =
                    [NoChan EXCEPT !.st = "closed", !.by = w]]
    /\ tunnels' = [tunnels EXCEPT ![wk[w].port].state = TERROR]
    /\ lastEv' = [port |-> wk[w].port, state |-> TERROR]
    /\ wk' = [wk EXCEPT ![w] = WorkerLoopTest(w)]
    /\ UNCHANGED <<sessVars, uiVars, mTransport, tunnelThreads, stopEvents,
                   portOrder, obs, srvVars, monVars, thrVars, envVars>>

\* TunnelManager._forward_connection: local_sock.connect raises; the finally
\* block closes the socket and the channel (by keeps the worker that had
\* accepted it)
WorkerAcceptDialFails(w) == WorkerAccepts(w, "closed")

\* TunnelManager._handle_tunnel_connections: accept(1.0) returns None on its
\* timeout, or raises (self._transport was None) and the exception is logged
WorkerAcceptNone(w) ==
    /\ wk[w].pc = "accept"
    /\ wk[w].on = 0 \/ QueuedOn(wk[w].on) = {}
    /\ wk' = [wk EXCEPT ![w] = WorkerLoopTest(w)]
    /\ UNCHANGED <<sessVars, uiVars, tmVars, chan, srvVars, monVars, thrVars,
                   envVars>>

FreshChans == {c \in 1..MaxChan : chan[c].st = "unused"}
NewChan == CHOOSE c \in FreshChans : \A d \in FreshChans : c <= d

\* the server accepts a connection on a port it listens on for a live
\* transport and opens a forwarded-tcpip channel on that transport
ChannelOpened ==
    /\ FreshChans # {}
    /\ \E tr \in 1..MaxT : \E p \in srvFwd[tr] :
          /\ tStat[tr] = "up"
          /\ chan' = [chan EXCEPT ![NewChan] =
                         [NoChan EXCEPT !.tr = tr, !.dport = p, !.st = "queued"]]
    /\ UNCHANGED <<sessVars, uiVars, tmVars, wk, srvVars, monVars, thrVars,
                   envVars>>

\* TunnelManager._forward_connection: a recv returns no data (the peer or
\* the transport closed); the loop breaks and both ends are closed
SpliceEof(c) ==
    /\ chan[c].st \in {"open", "erred"}
    /\ chan' = [chan EXCEPT ![c] = [NoChan EXCEPT !.st = "closed"]]
    /\ UNCHANGED <<sessVars, uiVars, tmVars, wk, srvVars, monVars, thrVars,
                   envVars>>

\* TunnelManager._forward_connection: a recv or a sendall raises an I/O
\* error that is not EOF (a reset, a closed channel); `except socket.error:
\* pass` drops it and the `while True` loop goes on with both ends open
\* ("erred")
SpliceError(c) ==
    /\ chan[c].st = "open"
    /\ chan' = [chan EXCEPT ![c].st = "erred"]
    /\ UNCHANGED <<sessVars, uiVars, tmVars, wk, srvVars, monVars, thrVars,
                   envVars>>

\* ----------------------------------------------------- ConnectionMonitor
Min(a, b) == IF a <= b THEN a ELSE b

RECURSIVE Pow(_, _)
Pow(b, n) == IF n = 0 THEN 1 ELSE b * Pow(b, n - 1)

\* ConnectionMonitor._calculate_backoff_delay, of self._current_attempt = n
CalculateBackoffDelay(n) ==
    IF n = 0 THEN cfg.initial_delay
    ELSE Min(cfg.initial_delay * Pow(cfg.backoff_multiplier, n), cfg.max_delay)

FreeMonThreads == {m \in MonThreads : stk[m] = <<>>}
NewMonThread == CHOOSE m \in FreeMonThreads :
                    \A n \in FreeMonThreads : m = "m1" \/ n # "m1"

\* ConnectionMonitor.start(key_passphrase), run by the caller's thread
MonitorStart(t) ==
    /\ Top(t) = "monitor_start"
    /\ IF monState # STOPPED
       THEN /\ stk' = Return(t)
            /\ UNCHANGED monVars
       ELSE /\ FreeMonThreads # {}
            /\ passphrase' = cfg.passphrase
            /\ monStop' = FALSE
            /\ curAttempt' = 0
            /\ monState' = RUNNING
            /\ monThread' = NewMonThread
            /\ stk' = [Return(t) EXCEPT ![NewMonThread] = <<"monitor_loop">>]
    /\ UNCHANGED <<sessVars, uiVars, tmVars, wkVars, srvVars, loc, envVars>>

\* ConnectionMonitor.stop, run by the caller's thread: return when Stopped,
\* else self._stop_event.set()
MonitorStop(t) ==
    /\ Top(t) = "monitor_stop"
    /\ IF monState = STOPPED
       THEN /\ stk' = Return(t)
            /\ UNCHANGED monStop
       ELSE /\ monStop' = TRUE
            /\ stk' = Goto(t, "monitor_join")
    /\ UNCHANGED <<sessVars, uiVars, tmVars, wkVars, srvVars, monState,
                   monThread, curAttempt, passphrase, loc, envVars>>

\* self._monitor_thread.join(timeout=5.0) returns: the thread has exited
\* (Top is "none"), or the timeout passed while the thread is inside the
\* handshake of connect() (timeout=30), the one call of the monitor thread
\* that outlasts the join
MonitorJoinReturns(m) == Top(m) \in {"none", "connect_handshake"}

\* ConnectionMonitor.stop: the join returns, then self._monitor_thread =
\* None, self._state = STOPPED, self._current_attempt = 0
MonitorStopJoin(t) ==
    /\ Top(t) = "monitor_join"
    /\ monThread # "none" => MonitorJoinReturns(monThread)
    /\ monThread' = "none"
    /\ monState' = STOPPED
    /\ curAttempt' = 0
    /\ stk' = Return(t)
    /\ UNCHANGED <<sessVars, uiVars, tmVars, wkVars, srvVars, monStop,
                   passphrase, loc, envVars>>

\* a monitor loop that does not probe a Connected session
MonitorWakeupNoProbe(m) ==
    /\ Top(m) = "monitor_loop"
    /\ IF monStop
       THEN stk' = [stk EXCEPT ![m] = <<>>]
       ELSE IF sState \in {DISCONNECTED, ERROR} /\ cfg.reconnect_enabled
       THEN stk' = Goto(m, "handle_disconnect")
       ELSE UNCHANGED stk
    /\ UNCHANGED <<sessVars, uiVars, tmVars, wkVars, srvVars, monVars, loc,
                   envVars>>

\* ConnectionMonitor._monitor_loop: the loop test and the wait of one check
\* interval; when stop is set the thread ends, else the health check: a
\* Connected session is probed and _handle_disconnect() is called when the
\* probe fails, a Disconnected or Error session is handled when reconnect is
\* enabled, a Connecting session is left alone
MonitorWakeup(m) ==
    /\ Top(m) = "monitor_loop"
    /\ IF monStop
       THEN stk' = [stk EXCEPT ![m] = <<>>]
       ELSE IF sState = CONNECTED
       THEN IF ~CheckConnection
            THEN stk' = Goto(m, "handle_disconnect")
            ELSE UNCHANGED stk
       ELSE IF sState \in {DISCONNECTED, ERROR} /\ cfg.reconnect_enabled
       THEN stk' = Goto(m, "handle_disconnect")
       ELSE UNCHANGED stk
    /\ UNCHANGED <<sessVars, uiVars, tmVars, wkVars, srvVars, monVars, loc,
                   envVars>>

\* a _handle_disconnect that does not look at reconnect.enabled
HandleDisconnectAlways(m) ==
    /\ Top(m) = "handle_disconnect"
    /\ monState' = RECONNECTING
    /\ CallStopAll(m, "hd_delay")
    /\ UNCHANGED <<sessVars, uiVars, tmVars, wkVars, srvVars, monThread,
                   monStop, curAttempt, passphrase, envVars>>

\* ConnectionMonitor._handle_disconnect, entry: return when reconnect is
\* disabled, else self._state = RECONNECTING and stop_all_tunnels()
HandleDisconnect(m) ==
    /\ Top(m) = "handle_disconnect"
    /\ IF ~cfg.reconnect_enabled
       THEN /\ stk' = Goto(m, "monitor_loop")
            /\ UNCHANGED <<monState, loc>>
       ELSE /\ monState' = RECONNECTING
            /\ CallStopAll(m, "hd_delay")
    /\ UNCHANGED <<sessVars, uiVars, tmVars, wkVars, srvVars, monThread,
                   monStop, curAttempt, passphrase, envVars>>

\* ConnectionMonitor._handle_disconnect: after stop_all_tunnels (an
\* exception of it ends the thread), delay = self._calculate_backoff_delay()
HandleDisconnectDelay(m) ==
    /\ Top(m) = "hd_delay"
    /\ IF loc[m].ret = "raise"
       THEN /\ stk' = [stk EXCEPT ![m] = <<>>]
            /\ UNCHANGED loc
       ELSE /\ stk' = Goto(m, "hd_loop")
            /\ loc' = [loc EXCEPT ![m].delay = CalculateBackoffDelay(curAttempt)]
    /\ UNCHANGED <<sessVars, uiVars, tmVars, wkVars, srvVars, monVars, envVars>>

\* a backoff loop that takes max_attempts = 0 as a limit of no attempts
HandleDisconnectLoopZeroLimit(m) ==
    /\ Top(m) = "hd_loop"
    /\ IF monStop
       THEN /\ stk' = Goto(m, "monitor_loop")
            /\ UNCHANGED <<curAttempt, monState>>
       ELSE /\ curAttempt < MaxAttempt
            /\ curAttempt' = curAttempt + 1
            /\ IF curAttempt + 1 > cfg.max_attempts
               THEN /\ monState' = RUNNING
                    /\ stk' = Goto(m, "monitor_loop")
               ELSE /\ stk' = Goto(m, "hd_wait")
                    /\ UNCHANGED monState
    /\ loc' = [loc EXCEPT ![m].af = IF stk'[m] = <<"hd_wait">> THEN @ ELSE 0]
    /\ UNCHANGED <<sessVars, uiVars, tmVars, wkVars, srvVars, monThread,
                   monStop, passphrase, envVars>>

\* ConnectionMonitor._handle_disconnect: `while not stop`, the attempt
\* counter is incremented, and the episode is abandoned (state RUNNING)
\* when max_attempts > 0 and the counter exceeds it
HandleDisconnectLoop(m) ==
    /\ Top(m) = "hd_loop"
    /\ IF monStop
       THEN /\ stk' = Goto(m, "monitor_loop")
            /\ UNCHANGED <<curAttempt, monState>>
       ELSE /\ curAttempt < MaxAttempt
            /\ curAttempt' = curAttempt + 1
            /\ IF cfg.max_attempts > 0 /\ curAttempt + 1 > cfg.max_attempts
               THEN /\ monState' = RUNNING
                    /\ stk' = Goto(m, "monitor_loop")
               ELSE /\ stk' = Goto(m, "hd_wait")
                    /\ UNCHANGED monState
    /\ loc' = [loc EXCEPT ![m].af = IF stk'[m] = <<"hd_wait">> THEN @ ELSE 0]
    /\ UNCHANGED <<sessVars, uiVars, tmVars, wkVars, srvVars, monThread,
                   monStop, passphrase, envVars>>

\* ConnectionMonitor._handle_disconnect: the wait of `delay`; broken by stop,
\* else ssh_client.disconnect() and then ssh_client.connect(passphrase)
HandleDisconnectWait(m) ==
    /\ Top(m) = "hd_wait"
    /\ IF monStop
       THEN /\ stk' = Goto(m, "monitor_loop")
            /\ loc' = [loc EXCEPT ![m].af = 0]
       ELSE /\ stk' = [stk EXCEPT ![m] =
                       <<"disconnect", "connect", "hd_connected">> \o Tail(@)]
            /\ loc' = [loc EXCEPT ![m].af = IF @ > 0 THEN @ + 1 ELSE 0]
    /\ UNCHANGED <<sessVars, uiVars, tmVars, wkVars, srvVars, monVars, envVars>>

\* the connect() the monitor thread m returned from raised an
\* authentication failure
AuthFailed(m) == loc[m].ret = "raise" /\ loc[m].err = "auth"

\* ConnectionMonitor._handle_disconnect: after connect(); an exception or a
\* session that is not connected goes to the next delay, else the counter
\* is reset and the state is RUNNING
HandleDisconnectConnected(m) ==
    /\ Top(m) = "hd_connected"
    /\ IF loc[m].ret = "raise" \/ ~IsConnected
       THEN /\ stk' = Goto(m, "hd_loop")
            /\ loc' = [loc EXCEPT ![m] =
                          [LocInit EXCEPT
                              !.delay = CalculateBackoffDelay(curAttempt),
                              !.af = IF loc[m].af = 0 /\ AuthFailed(m)
                                     THEN 1 ELSE loc[m].af]]
            /\ UNCHANGED <<curAttempt, monState>>
       ELSE /\ curAttempt' = 0
            /\ monState' = RUNNING
            /\ stk' = Goto(m, "hd_bind")
            /\ loc' = [loc EXCEPT ![m] = LocInit]
    /\ UNCHANGED <<sessVars, uiVars, tmVars, wkVars, srvVars, monThread,
                   monStop, passphrase, envVars>>

\* TunnelManager.set_transport(ssh_client.get_transport())
SetTransport == mTransport' = GetTransport

\* ConnectionMonitor._handle_disconnect: the transport of the session is
\* given to the tunnel manager and start_all_tunnels(rules) is called
HandleDisconnectBind(m) ==
    /\ Top(m) = "hd_bind"
    /\ SetTransport
    /\ CallStartAll(m, "hd_started")
    /\ UNCHANGED <<sessVars, uiVars, tunnels, tunnelThreads, stopEvents,
                   portOrder, lastEv, obs, wkVars, srvVars, monVars, envVars>>

\* ConnectionMonitor._handle_disconnect: start_all_tunnels returned (the
\* function returns) or raised (the next delay)
HandleDisconnectStarted(m) ==
    /\ Top(m) = "hd_started"
    /\ IF loc[m].ret = "raise"
       THEN /\ stk' = Goto(m, "hd_loop")
            /\ loc' = [loc EXCEPT ![m] =
                          [LocInit EXCEPT
                              !.delay = CalculateBackoffDelay(curAttempt),
                              !.af = loc[m].af]]
       ELSE /\ stk' = Goto(m, "monitor_loop")
            /\ loc' = [loc EXCEPT ![m] = LocInit]
    /\ UNCHANGED <<sessVars, uiVars, tmVars, wkVars, srvVars, monVars, envVars>>

\* ConnectionMonitor.reset_reconnect_counter
ResetReconnectCounter ==
    /\ curAttempt' = 0
    /\ UNCHANGED <<sessVars, uiVars, tmVars, wkVars, srvVars, monState,
                   monThread, monStop, passphrase, thrVars, envVars>>

\* ------------------------------------------------------------ MainWindow
\* the number of a port of the model (0 for "p0", a port out of range)
PortNumber(p) ==
    CASE p = "p1" -> 8080 [] p = "p2" -> 8081
      [] p = "l1" -> 3000 [] p = "l2" -> 3001 [] OTHER -> 0

\* ConfigManager.validate: the list of errors, as a set
Validate(c) ==
    {e \in {"hostname", "username", "key_path", "key_file", "port"} :
        \/ e = "hostname" /\ c.hostname = ""
        \/ e = "username" /\ c.username = ""
        \/ e = "key_path" /\ c.key_path = ""
        \/ e = "key_file" /\ c.key_path # "" /\ c.key = "keymissing"
        \/ e = "port" /\ (c.server_port < 1 \/ c.server_port > 65535)}
    \cup {<<"local", i>> : i \in {j \in 1..Len(c.rules) :
                \/ PortNumber(c.rules[j].local_port) < 1
                \/ PortNumber(c.rules[j].local_port) > 65535}}
    \cup {<<"remote", i>> : i \in {j \in 1..Len(c.rules) :
                \/ PortNumber(c.rules[j].remote_port) < 1
                \/ PortNumber(c.rules[j].remote_port) > 65535}}

\* MainWindow.connect_action, triggered while the tray action is enabled:
\* the action ends when validate() reports errors, else
\* ssh_client.connect(passphrase) is called
ConnectAction ==
    /\ Top("ui") = "ui_idle"
    /\ connEnabled
    /\ clicks < MaxClicks
    /\ clicks' = clicks + 1
    /\ IF Validate(cfg) # {}
       THEN UNCHANGED stk
       ELSE stk' = Call("ui", "connect", "ca_connected")
    /\ UNCHANGED <<sessVars, connEnabled, discEnabled, tmVars, wkVars,
                   srvVars, monVars, loc, envVars>>

\* MainWindow.connect_action: after connect() (an exception ends the
\* action), set_transport(get_transport()) and start_all_tunnels(rules)
ConnectActionConnected ==
    /\ Top("ui") = "ca_connected"
    /\ IF loc["ui"].ret = "raise"
       THEN /\ stk' = Goto("ui", "ui_idle")
            /\ loc' = [loc EXCEPT !["ui"].err = "none"]
            /\ UNCHANGED mTransport
       ELSE /\ SetTransport
            /\ CallStartAll("ui", "ca_started")
    /\ UNCHANGED <<sessVars, uiVars, tunnels, tunnelThreads, stopEvents,
                   portOrder, lastEv, obs, wkVars, srvVars, monVars, envVars>>

\* MainWindow.connect_action: after start_all_tunnels (an exception ends the
\* action), connection_monitor.start(passphrase)
ConnectActionStarted ==
    /\ Top("ui") = "ca_started"
    /\ stk' = IF loc["ui"].ret = "raise"
              THEN Goto("ui", "ui_idle")
              ELSE Call("ui", "monitor_start", "ui_idle")
    /\ loc' = [loc EXCEPT !["ui"] = LocInit]
    /\ UNCHANGED <<sessVars, uiVars, tmVars, wkVars, srvVars, monVars,
                   envVars>>

\* MainWindow.disconnect_action, triggered while the tray action is enabled:
\* connection_monitor.stop()
DisconnectAction ==
    /\ Top("ui") = "ui_idle"
    /\ discEnabled
    /\ clicks < MaxClicks
    /\ clicks' = clicks + 1
    /\ stk' = Call("ui", "monitor_stop", "da_stop_all")
    /\ UNCHANGED <<sessVars, connEnabled, discEnabled, tmVars, wkVars,
                   srvVars, monVars, loc, envVars>>

\* MainWindow.disconnect_action: tunnel_manager.stop_all_tunnels()
DisconnectActionStopAll ==
    /\ Top("ui") = "da_stop_all"
    /\ CallStopAll("ui", "da_disconnect")
    /\ UNCHANGED <<sessVars, uiVars, tmVars, wkVars, srvVars, monVars, envVars>>

\* MainWindow.disconnect_action: after stop_all_tunnels (an exception ends
\* the action), ssh_client.disconnect()
DisconnectActionDisconnect ==
    /\ Top("ui") = "da_disconnect"
    /\ stk' = IF loc["ui"].ret = "raise"
              THEN Goto("ui", "ui_idle")
              ELSE Call("ui", "disconnect", "ui_idle")
    /\ loc' = [loc EXCEPT !["ui"] = LocInit]
    /\ UNCHANGED <<sessVars, uiVars, tmVars, wkVars, srvVars, monVars,
                   envVars>>

\* ------------------------------------------------- callers of the API
\* a thread of the embedding application calls SSHClient.connect()
ApiConnect(t) ==
    /\ Top(t) = "api_idle"
    /\ stk' = Call(t, "connect", "api_idle")
    /\ UNCHANGED <<sessVars, uiVars, tmVars, wkVars, srvVars, monVars, loc,
                   envVars>>

\* a thread of the embedding application calls SSHClient.disconnect()
ApiDisconnect(t) ==
    /\ Top(t) = "api_idle"
    /\ stk' = Call(t, "disconnect", "api_idle")
    /\ UNCHANGED <<sessVars, uiVars, tmVars, wkVars, srvVars, monVars, loc,
                   envVars>>

\* a call of the TunnelManager's API from outside may start
ApiIdle(t) ==
    /\ Top(t) = "api_idle"
    /\ clicks < MaxCalls
    /\ clicks' = clicks + 1

\* a thread calls TunnelManager.start_tunnel(rule)
ApiStartTunnel(t) ==
    /\ ApiIdle(t)
    /\ \E r \in 1..Len(Rules) :
          loc' = [loc EXCEPT ![t] = [LocInit EXCEPT !.rule = r]]
    /\ stk' = Call(t, "start_tunnel", "api_idle")
    /\ UNCHANGED <<sessVars, connEnabled, discEnabled, tmVars, wkVars,
                   srvVars, monVars, envVars>>

\* a thread calls TunnelManager.stop_tunnel(remote_port)
ApiStopTunnel(t) ==
    /\ ApiIdle(t)
    /\ \E r \in 1..Len(Rules) :
          loc' = [loc EXCEPT ![t] = [LocInit EXCEPT !.port = RemotePort(r)]]
    /\ stk' = Call(t, "stop_tunnel", "api_idle")
    /\ UNCHANGED <<sessVars, connEnabled, discEnabled, tmVars, wkVars,
                   srvVars, monVars, envVars>>

\* a thread calls TunnelManager.start_all_tunnels(rules)
ApiStartAll(t) ==
    /\ ApiIdle(t)
    /\ CallStartAll(t, "api_idle")
    /\ UNCHANGED <<sessVars, connEnabled, discEnabled, tmVars, wkVars,
                   srvVars, monVars, envVars>>

\* a thread calls TunnelManager.stop_all_tunnels()
ApiStopAll(t) ==
    /\ ApiIdle(t)
    /\ CallStopAll(t, "api_idle")
    /\ UNCHANGED <<sessVars, connEnabled, discEnabled, tmVars, wkVars,
                   srvVars, monVars, envVars>>

\* a thread calls TunnelManager.set_transport(ssh_client.get_transport())
ApiSetTransport(t) ==
    /\ ApiIdle(t)
    /\ SetTransport
    /\ UNCHANGED <<sessVars, connEnabled, discEnabled, tunnels, tunnelThreads,
                   stopEvents, portOrder, lastEv, obs, wkVars, srvVars,
                   monVars, thrVars, envVars>>

\* -------------------------------------------------------- configurations
Rule(rp, lp, en) == [remote_port |-> rp, local_port |-> lp, enabled |-> en]

\* AppConfig: the rules and ReconnectConfig (initial delay 1 s, multiplier 2,
\* as the defaults of config.py; the maximum delay of the reconnect scenario)
Config(rules, reconn, maxatt) ==
    [rules |-> rules, reconnect_enabled |-> reconn, max_attempts |-> maxatt,
     initial_delay |-> 1, max_delay |-> 10, backoff_multiplier |-> 2,
     passphrase |-> FALSE, observe |-> FALSE,
     key |-> "ok", failures |-> {"net", "auth"},
     hostname |-> "host", username |-> "user", key_path |-> "id_rsa",
     server_port |-> 22]

OneRule == <<Rule("p1", "l1", TRUE)>>
TwoRules == <<Rule("p1", "l1", TRUE), Rule("p2", "l2", TRUE)>>
MixedRules == <<Rule("p1", "l1", FALSE), Rule("p2", "l2", TRUE)>>
SamePortRules == <<Rule("p1", "l1", TRUE), Rule("p1", "l2", TRUE)>>

\* the state after the construction of SSHClient, TunnelManager,
\* ConnectionMonitor and MainWindow
InitObjects ==
    /\ sState = DISCONNECTED
    /\ sErr = "none"
    /\ sClient = 0
    /\ sTransport = 0
    /\ sLock = "free"
    /\ tStat = [c \in 1..MaxT |-> "unused"]
    /\ connEnabled = TRUE
    /\ discEnabled = FALSE
    /\ clicks = 0
    /\ mTransport = 0
    /\ tunnels = [p \in Ports |-> NoTunnel]
    /\ tunnelThreads = [p \in Ports |-> 0]
    /\ stopEvents = [p \in Ports |-> 0]
    /\ portOrder = <<>>
    /\ lastEv = [port |-> "none", state |-> "none"]
    /\ obs = [ev |-> 0, req |-> 0, cancel |-> 0]
    /\ wk = [w \in 1..MaxW |-> NoWorker]
    /\ chan = [c \in 1..MaxChan |-> NoChan]
    /\ srvFwd = [c \in 1..MaxT |-> {}]
    /\ monState = STOPPED
    /\ monThread = "none"
    /\ monStop = FALSE
    /\ curAttempt = 0
    /\ passphrase = FALSE
    /\ loc = [t \in Threads |-> LocInit]

\* ------------------------------------------------------- specifications
SessionStep(t) ==
    \/ ConnectGuard(t)
    \/ ConnectKeyFails(t)
    \/ ConnectNewClient(t)
    \/ ConnectHandshakeOk(t)
    \/ ConnectHandshakeFails(t)
    \/ ConnectTransport(t)
    \/ ConnectCleanup(t)
    \/ DisconnectGuard(t)
    \/ DisconnectCleanup(t)
    \/ SetStateA(t)
    \/ SetStateB(t)

TunnelStep(t) ==
    \/ StartTunnelGuard(t)
    \/ StartTunnelRequestOk(t)
    \/ StartTunnelRequestFails(t)
    \/ StartTunnelThread(t)
    \/ StartTunnelActive(t)
    \/ StartAllNext(t)
    \/ StopTunnelGuard(t)
    \/ StopTunnelEventCheck(t)
    \/ StopTunnelEventSet(t)
    \/ StopTunnelThreadCheck(t)
    \/ StopTunnelJoin(t)
    \/ StopTunnelCancel(t)
    \/ StopTunnelInactive(t)
    \/ StopAllNext(t)

WorkerStep ==
    \/ \E w \in 1..MaxW : WorkerAcceptChannel(w)
    \/ \E w \in 1..MaxW : WorkerAcceptDialFails(w)
    \/ \E w \in 1..MaxW : WorkerAcceptNone(w)
    \/ \E c \in 1..MaxChan : SpliceEof(c)
    \/ \E c \in 1..MaxChan : SpliceError(c)
    \/ ChannelOpened

MonitorStep ==
    \/ \E t \in Threads : MonitorStart(t)
    \/ \E t \in Threads : MonitorStop(t)
    \/ \E t \in Threads : MonitorStopJoin(t)
    \/ \E m \in MonThreads : MonitorWakeup(m)
    \/ \E m \in MonThreads : HandleDisconnect(m)
    \/ \E m \in MonThreads : HandleDisconnectDelay(m)
    \/ \E m \in MonThreads : HandleDisconnectLoop(m)
    \/ \E m \in MonThreads : HandleDisconnectWait(m)
    \/ \E m \in MonThreads : HandleDisconnectConnected(m)
    \/ \E m \in MonThreads : HandleDisconnectBind(m)
    \/ \E m \in MonThreads : HandleDisconnectStarted(m)

UiStep ==
    \/ ConnectAction
    \/ ConnectActionConnected
    \/ ConnectActionStarted
    \/ DisconnectAction
    \/ DisconnectActionStopAll
    \/ DisconnectActionDisconnect

\* The Session alone: two threads of the application (the UI thread and the
\* monitor thread are the two the program has) call connect() and
\* disconnect() at any time.
InitSession ==
    /\ InitObjects
    /\ stk = [t \in Threads |-> IF t = "m2" THEN <<>> ELSE <<"api_idle">>]
    /\ \E k \in {"ok", "keymissing", "keyload"} :
          cfg = [Config(OneRule, TRUE, 0) EXCEPT !.key = k]

NextSession ==
    \/ \E t \in Threads : ApiConnect(t)
    \/ \E t \in Threads : ApiDisconnect(t)
    \/ \E t \in Threads : SessionStep(t)
    \/ TransportLost

SpecSession == InitSession /\ [][NextSession]_vars

\* The TunnelManager alone, on an established session whose transport has
\* been given to it: two threads call start_tunnel, stop_tunnel,
\* start_all_tunnels, stop_all_tunnels and set_transport at any time; the
\* accept workers and the splice tasks run beside them; the server may drop
\* the transport and open forwarded channels.
InitTunnel ==
    /\ sState = CONNECTED
    /\ sErr = "none"
    /\ sClient = 1
    /\ sTransport = 1
    /\ sLock = "free"
    /\ tStat = [c \in 1..MaxT |-> IF c = 1 THEN "up" ELSE "unused"]
    /\ connEnabled = FALSE
    /\ discEnabled = TRUE
    /\ clicks = 0
    /\ mTransport = 1
    /\ tunnels = [p \in Ports |-> NoTunnel]
    /\ tunnelThreads = [p \in Ports |-> 0]
    /\ stopEvents = [p \in Ports |-> 0]
    /\ portOrder = <<>>
    /\ lastEv = [port |-> "none", state |-> "none"]
    /\ obs = [ev |-> 0, req |-> 0, cancel |-> 0]
    /\ wk = [w \in 1..MaxW |-> NoWorker]
    /\ chan = [c \in 1..MaxChan |-> NoChan]
    /\ srvFwd = [c \in 1..MaxT |-> {}]
    /\ monState = STOPPED
    /\ monThread = "none"
    /\ monStop = FALSE
    /\ curAttempt = 0
    /\ passphrase = FALSE
    /\ loc = [t \in Threads |-> LocInit]
    /\ stk = [t \in Threads |-> IF t = "m2" THEN <<>> ELSE <<"api_idle">>]
    /\ cfg = [Config(OneRule, TRUE, 0) EXCEPT !.observe = TRUE]

NextTunnel ==
    \/ \E t \in Threads : ApiStartTunnel(t)
    \/ \E t \in Threads : ApiStopTunnel(t)
    \/ \E t \in Threads : ApiStartAll(t)
    \/ \E t \in Threads : ApiStopAll(t)
    \/ \E t \in Threads : ApiSetTransport(t)
    \/ \E t \in Threads : TunnelStep(t)
    \/ WorkerStep
    \/ TransportLost

SpecTunnel == InitTunnel /\ [][NextTunnel]_vars

\* The bulk operations of the TunnelManager on a configuration of two rules
\* (both enabled, or the first disabled), on an established session: two
\* threads call start_all_tunnels, stop_all_tunnels and set_transport at any
\* time; workers, splice tasks and the server as in SpecTunnel.
InitBulk ==
    /\ sState = CONNECTED
    /\ sErr = "none"
    /\ sClient = 1
    /\ sTransport = 1
    /\ sLock = "free"
    /\ tStat = [c \in 1..MaxT |-> IF c = 1 THEN "up" ELSE "unused"]
    /\ connEnabled = FALSE
    /\ discEnabled = TRUE
    /\ clicks = 0
    /\ mTransport = 1
    /\ tunnels = [p \in Ports |-> NoTunnel]
    /\ tunnelThreads = [p \in Ports |-> 0]
    /\ stopEvents = [p \in Ports |-> 0]
    /\ portOrder = <<>>
    /\ lastEv = [port |-> "none", state |-> "none"]
    /\ obs = [ev |-> 0, req |-> 0, cancel |-> 0]
    /\ wk = [w \in 1..MaxW |-> NoWorker]
    /\ chan = [c \in 1..MaxChan |-> NoChan]
    /\ srvFwd = [c \in 1..MaxT |-> {}]
    /\ monState = STOPPED
    /\ monThread = "none"
    /\ monStop = FALSE
    /\ curAttempt = 0
    /\ passphrase = FALSE
    /\ loc = [t \in Threads |-> LocInit]
    /\ stk = [t \in Threads |-> IF t = "m2" THEN <<>> ELSE <<"api_idle">>]
    /\ \E rules \in {TwoRules, MixedRules} : cfg = Config(rules, TRUE, 0)

NextBulk ==
    \/ \E t \in Threads : ApiStartAll(t)
    \/ \E t \in Threads : ApiStopAll(t)
    \/ \E t \in Threads : ApiSetTransport(t)
    \/ \E t \in Threads : TunnelStep(t)
    \/ WorkerStep
    \/ TransportLost

SpecBulk == InitBulk /\ [][NextBulk]_vars

\* ReconnectConfig values of the reconnect scenarios: <<initial delay,
\* multiplier, maximum delay>>; config.py accepts any numbers
Backoff(c, b) ==
    [c EXCEPT !.initial_delay = b[1], !.backoff_multiplier = b[2],
              !.max_delay = b[3], !.passphrase = TRUE]

\* configurations of the reconnect scenarios: unlimited and limited
\* attempts, a key that loads and a key whose loading fails at reconnect
\* time, and four settings of the backoff
MonitorConfigs ==
    {Backoff(Config(OneRule, TRUE, 0), <<1, 2, 10>>),
     Backoff([Config(OneRule, TRUE, 0) EXCEPT !.key = "keyload"], <<1, 3, 5>>),
     Backoff(Config(OneRule, TRUE, 2), <<1, 2, 10>>),
     Backoff([Config(OneRule, TRUE, 2) EXCEPT !.key = "keyload"], <<2, 1, 10>>),
     Backoff([Config(OneRule, TRUE, 0) EXCEPT !.key = "keyload"], <<5, 2, 3>>)}

\* The program after a successful connect_action with a passphrase: the
\* session is Connected, its transport is bound, the forward of the rule is
\* Active with its accept worker, and the monitor thread is running
ConnectedProgram ==
    /\ sState = CONNECTED
    /\ sErr = "none"
    /\ sClient = 1
    /\ sTransport = 1
    /\ sLock = "free"
    /\ tStat = [c \in 1..MaxT |-> IF c = 1 THEN "up" ELSE "unused"]
    /\ connEnabled = FALSE
    /\ discEnabled = TRUE
    /\ mTransport = 1
    /\ tunnels = [p \in Ports |->
                    IF p = "p1" THEN [rule |-> 1, state |-> ACTIVE,
                                      err |-> "none", count |-> 0, tr |-> 1]
                    ELSE NoTunnel]
    /\ tunnelThreads = [p \in Ports |-> IF p = "p1" THEN 1 ELSE 0]
    /\ stopEvents = [p \in Ports |-> IF p = "p1" THEN 1 ELSE 0]
    /\ portOrder = <<"p1">>
    /\ lastEv = [port |-> "p1", state |-> ACTIVE]
    /\ obs = [ev |-> 0, req |-> 0, cancel |-> 0]
    /\ wk = [w \in 1..MaxW |->
                IF w = 1 THEN [port |-> "p1", rule |-> 1, pc |-> "accept",
                               ev |-> FALSE, on |-> 1, tr |-> 1]
                ELSE NoWorker]
    /\ chan = [c \in 1..MaxChan |-> NoChan]
    /\ srvFwd = [c \in 1..MaxT |-> IF c = 1 THEN {"p1"} ELSE {}]
    /\ monState = RUNNING
    /\ monThread = "m1"
    /\ monStop = FALSE
    /\ curAttempt = 0
    /\ loc = [t \in Threads |-> LocInit]
    /\ stk = [t \in Threads |-> IF t = "ui" THEN <<"ui_idle">>
                                ELSE IF t = "m1" THEN <<"monitor_loop">>
                                ELSE <<>>]

\* the connected program, the click that connected it counted
InitConnected ==
    /\ ConnectedProgram
    /\ clicks = 1

\* The reconnect scenarios: the connected program under each configuration
\* of MonitorConfigs; the UI, the monitor thread, the workers and the server
\* as in Spec.
InitMonitor ==
    /\ InitConnected
    /\ cfg \in MonitorConfigs
    /\ passphrase = cfg.passphrase

NextMonitor ==
    \/ \E t \in Threads : SessionStep(t)
    \/ \E t \in Threads : TunnelStep(t)
    \/ WorkerStep
    \/ MonitorStep
    \/ UiStep
    \/ TransportLost

SpecMonitor == InitMonitor /\ [][NextMonitor]_vars

\* The restart scenario: the connected program with max_attempts = 1, where
\* the user may click Disconnect and then Connect again (the click that
\* connected the program is not counted here, so both fit in MaxClicks).
InitRestart ==
    /\ ConnectedProgram
    /\ clicks = 0
    /\ cfg = Backoff(Config(OneRule, TRUE, 1), <<1, 2, 10>>)
    /\ passphrase = cfg.passphrase

\* the steps of the restart scenario: as NextMonitor, with a key that loads
\* and no peer that connects to the remote port
NextRestart ==
    \/ \E t \in Threads : ConnectGuard(t)
    \/ \E t \in Threads : ConnectNewClient(t)
    \/ \E t \in Threads : ConnectHandshakeOk(t)
    \/ \E t \in Threads : ConnectHandshakeFails(t)
    \/ \E t \in Threads : ConnectTransport(t)
    \/ \E t \in Threads : ConnectCleanup(t)
    \/ \E t \in Threads : DisconnectGuard(t)
    \/ \E t \in Threads : DisconnectCleanup(t)
    \/ \E t \in Threads : SetStateA(t)
    \/ \E t \in Threads : SetStateB(t)
    \/ \E t \in Threads : TunnelStep(t)
    \/ \E w \in 1..MaxW : WorkerAcceptNone(w)
    \/ MonitorStep
    \/ UiStep
    \/ TransportLost

SpecRestart == InitRestart /\ [][NextRestart]_vars

\* handshakes the server has refused so far: clients created by connect()
\* that never came up and are not in their handshake any more
FailedHandshakes ==
    Cardinality({c \in 1..MaxT :
                    /\ tStat[c] = "new"
                    /\ \A t \in Threads :
                          ~(Top(t) = "connect_handshake" /\ loc[t].cl = c)})

\* the number of connect attempts the server of the retry scenario refuses
\* at most before it accepts
ServerRefusals == Min(MaxAttempt, MaxT - 1) - 1

\* SSHClient.connect: the handshake raises, on a server that still refuses
ConnectHandshakeRefused(t) ==
    /\ FailedHandshakes < ServerRefusals
    /\ ConnectHandshakeFails(t)

\* the server drops the session the program starts with
ServerDropsFirst ==
    /\ \A c \in 2..MaxT : tStat[c] = "unused"
    /\ TransportLost

\* what the monitor thread m can do when no stop is requested and the key
\* loads: its loop, _handle_disconnect and the calls made from it
MonitorRuns(m) ==
    \/ MonitorWakeup(m)
    \/ HandleDisconnect(m)
    \/ HandleDisconnectDelay(m)
    \/ HandleDisconnectLoop(m)
    \/ HandleDisconnectWait(m)
    \/ HandleDisconnectConnected(m)
    \/ HandleDisconnectBind(m)
    \/ HandleDisconnectStarted(m)
    \/ ConnectGuard(m)
    \/ ConnectNewClient(m)
    \/ ConnectHandshakeOk(m)
    \/ ConnectHandshakeRefused(m)
    \/ ConnectTransport(m)
    \/ ConnectCleanup(m)
    \/ DisconnectGuard(m)
    \/ DisconnectCleanup(m)
    \/ SetStateA(m)
    \/ SetStateB(m)
    \/ TunnelStep(m)

\* an accept worker returns from accept(timeout=1.0)
WorkerRuns ==
    \/ \E w \in 1..MaxW : WorkerAcceptChannel(w)
    \/ \E w \in 1..MaxW : WorkerAcceptDialFails(w)
    \/ \E w \in 1..MaxW : WorkerAcceptNone(w)

\* The retry scenario: unlimited attempts, nobody calls stop(); the server
\* drops the first session, refuses up to ServerRefusals connect attempts
\* and then accepts and keeps the session.  The monitor thread and the
\* accept workers are threads of the process and keep running (weak
\* fairness); the server's and the peers' steps are under no obligation.
InitRetry ==
    /\ InitConnected
    /\ cfg = Backoff(Config(OneRule, TRUE, 0), <<1, 2, 10>>)
    /\ passphrase = cfg.passphrase

NextRetry ==
    \/ \E m \in MonThreads : MonitorRuns(m)
    \/ WorkerRuns
    \/ \E c \in 1..MaxChan : SpliceEof(c)
    \/ \E c \in 1..MaxChan : SpliceError(c)
    \/ ChannelOpened
    \/ ServerDropsFirst

SpecRetry ==
    /\ InitRetry
    /\ [][NextRetry]_vars
    /\ WF_vars(\E m \in MonThreads : MonitorRuns(m))
    /\ WF_vars(WorkerRuns)

\* The program: MainWindow drives the Session, the TunnelManager and the
\* ConnectionMonitor from the UI thread; the monitor thread, the accept
\* workers and the splice tasks run beside it; the server may drop the
\* transport and open forwarded channels.
Init ==
    /\ InitObjects
    /\ stk = [t \in Threads |-> IF t = "ui" THEN <<"ui_idle">> ELSE <<>>]
    /\ \/ \E k \in {"ok", "keyload"} : \E re \in BOOLEAN :
             cfg = [Config(OneRule, re, 0) EXCEPT !.key = k,
                                                  !.failures = {"net"}]
       \/ cfg = [Config(SamePortRules, FALSE, 0) EXCEPT !.failures = {"net"}]
       \/ cfg = [Config(<<Rule("p0", "l1", TRUE)>>, FALSE, 0) EXCEPT !.failures = {"net"}]
       \/ cfg = [Config(OneRule, FALSE, 0) EXCEPT !.hostname = "",
                                                  !.key = "keymissing"]

Next ==
    \/ \E t \in Threads : SessionStep(t)
    \/ \E t \in Threads : TunnelStep(t)
    \/ WorkerStep
    \/ MonitorStep
    \/ UiStep
    \/ TransportLost

Spec == Init /\ [][Next]_vars

C4_NoWorkerAfterStop ==
    [][\A t \in Threads :
          (Top(t) = "stop_inactive" /\ stk'[t] # stk[t]) =>
             \A w \in 1..MaxW :
                ~(wk'[w].pc = "accept" /\ wk'[w].port = loc[t].port)]_vars

\* C5: when stop_tunnel(p) returns, no tunneled connection accepted for p is
\* still open.
C5_NoConnectionAfterStop ==
    [][\A t \in Threads :
          (Top(t) = "stop_inactive" /\ stk'[t] # stk[t]) =>
             \A c \in 1..MaxChan :
                ~(chan'[c].st = "open" /\
                  RemotePort(chan'[c].rule) = loc[t].port)]_vars

C7_StopStopsAll ==
    [][\A t \in Threads :
          (Top(t) \in {"monitor_stop", "monitor_join"} /\
           stk'[t] = Tail(stk[t])) =>
             /\ \A p \in Ports : tunnels'[p].state \in {"absent", INACTIVE}
             /\ sState' = DISCONNECTED]_vars

\* C8: the Session's state follows the state machine of the contract; in
\* particular CONNECTED is never followed directly by CONNECTING nor directly
\* by DISCONNECTED (a DISCONNECTING state lies between).
C8_StateMachine ==
    [][sState = CONNECTED => sState' \notin {CONNECTING, DISCONNECTED}]_vars

\* C9: connect() called while the state is CONNECTED or CONNECTING returns ok
\* at once: the state, the error message, the client and transport handles
\* and the transports are unchanged and _set_state (the one place that fires
\* callbacks) is not entered.
C9_ConnectIdempotent ==
    [][\A t \in Threads :
          (Top(t) = "connect" /\ stk'[t] # stk[t] /\
           sState \in {CONNECTING, CONNECTED}) =>
             /\ stk'[t] = Tail(stk[t])
             /\ loc'[t].ret = "ok"
             /\ UNCHANGED <<sState, sErr, sClient, sTransport, tStat,
                            connEnabled, discEnabled>>]_vars

\* a second caller got ok from connect() while the first is still inside the
\* handshake of the only client ever created, and the state is CONNECTING
C9_Witness ==
    /\ sState = CONNECTING
    /\ tStat = [c \in 1..MaxT |-> IF c = 1 THEN "new" ELSE "unused"]
    /\ \E t \in Threads : Top(t) = "api_idle" /\ loc[t].ret = "ok"

\* C10: when connect() raises, the state is ERROR with a message and the
\* client and transport handles are both None.
C10_FailureReleases ==
    [][\A t \in Threads :
          (Top(t) = "set_state_msg" /\ loc[t].k = "ret" /\
           loc[t].ret = "raise" /\ stk'[t] # stk[t]) =>
             /\ sState' = ERROR
             /\ sErr' # "none"
             /\ sClient' = 0
             /\ sTransport' = 0]_vars

\* C11: disconnect() is safe from any state: a disconnect() called while a
\* connect() of another thread is in progress returns without raising, and
\* once both calls have returned (and no connect() has begun since) the
\* Session is DISCONNECTED and holds no client and no transport.
C11_DisconnectSafe ==
    \A b \in Threads :
       (/\ Top(b) = "api_idle"
        /\ loc[b].cc
        /\ \A u \in Threads : Top(u) \in {"api_idle", "none"}) =>
          /\ loc[b].ret = "done"
          /\ sState = DISCONNECTED
          /\ sClient = 0
          /\ sTransport = 0

\* C12: disconnect() called while the Session is DISCONNECTED is a no-op: it
\* returns at its guard, and state, error message, client, transport and
\* what the state callbacks set (the tray actions) are unchanged.
C12_DisconnectNoop ==
    [][\A t \in Threads :
          (Top(t) = "disconnect" /\ stk'[t] # stk[t] /\ sState = DISCONNECTED) =>
             /\ stk'[t] = Tail(stk[t])
             /\ loc'[t].ret = "done"
             /\ UNCHANGED <<sState, sErr, sClient, sTransport, tStat,
                            connEnabled, discEnabled>>]_vars

\* a disconnect() has returned in a Session that no other call was ever made on
C12_Witness ==
    /\ cfg.key = "ok"
    /\ sState = DISCONNECTED
    /\ tStat = [c \in 1..MaxT |-> "unused"]
    /\ Top("ui") = "api_idle" /\ loc["ui"].ret = "done"
    /\ Top("m1") = "api_idle" /\ loc["m1"].ret = "none"

\* C13: get_transport() returns a handle only while the Session's state is
\* CONNECTED (and the transport is active): whenever a call of it would
\* return a transport, the state is CONNECTED.
C13_TransportOnlyConnected == GetTransport # 0 => sState = CONNECTED

\* C14: stop_tunnel(p) is idempotent: a stop_tunnel(p) that runs, with no
\* other call in progress, on a forward that a stop_tunnel(p) has already
\* made INACTIVE changes nothing observable: the forward stays INACTIVE, no
\* event is emitted and no request is issued on the transport.
C14_StopIdempotent ==
    [][\A t \in Threads :
          (/\ Top(t) \in {"stop_tunnel", "stop_event", "stop_thread",
                          "stop_cancel", "stop_inactive"}
           /\ stk'[t] # stk[t]
           /\ tunnels[loc[t].port].state = INACTIVE
           /\ \A u \in Threads \ {t} : Top(u) \in {"api_idle", "none"}) =>
             /\ tunnels'[loc[t].port].state = INACTIVE
             /\ obs' = obs]_vars

\* C15 (as stated): start_tunnel(rule) on a port whose forward is ACTIVE
\* returns the already-active result (True) and changes nothing: no
\* port-forward request, no worker, the entry unchanged.
C15_AlreadyActive ==
    [][\A t \in Threads :
          (/\ Top(t) = "start_tunnel" /\ stk'[t] # stk[t]
           /\ tunnels[RemotePort(loc[t].rule)].state = ACTIVE) =>
             /\ stk'[t] = Tail(stk[t])
             /\ loc'[t].ret = "true"
             /\ UNCHANGED <<tunnels, tunnelThreads, stopEvents, wk, srvFwd,
                            lastEv, obs>>]_vars

\* C15 (amended): start_tunnel(rule) on a port whose forward is ACTIVE
\* changes nothing (no port-forward request, no worker, the entry unchanged);
\* it returns True, the already-active result, when the bound transport is
\* active, and False when no active transport is bound.
C15_AlreadyActiveOnTransport ==
    [][\A t \in Threads :
          (/\ Top(t) = "start_tunnel" /\ stk'[t] # stk[t]
           /\ tunnels[RemotePort(loc[t].rule)].state = ACTIVE) =>
             /\ stk'[t] = Tail(stk[t])
             /\ loc'[t].ret = IF TransportActive(mTransport)
                               THEN "true" ELSE "false"
             /\ UNCHANGED <<tunnels, tunnelThreads, stopEvents, wk, srvFwd,
                            lastEv, obs>>]_vars

\* two calls of start_tunnel were made and both returned True, with one
\* port-forward request issued: the second found the forward ACTIVE
C15_Witness ==
    /\ clicks = 2
    /\ Top("ui") = "api_idle" /\ loc["ui"].ret = "true"
    /\ Top("m1") = "api_idle" /\ loc["m1"].ret = "true"
    /\ obs.req = 1
    /\ tunnels["p1"].state = ACTIVE

\* C16: whenever the port-forward request of start_tunnel(rule) fails, the
\* forward's state becomes ERROR with a message, the ERROR event is emitted
\* and start_tunnel returns False; the forward is not left in STARTING.
C16_RequestFailureIsError ==
    [][\A t \in Threads :
          (/\ Top(t) = "start_request" /\ stk'[t] # stk[t]
           /\ Top(t)' # "start_thread") =>
             LET p == RemotePort(loc[t].rule) IN
             /\ stk'[t] = Tail(stk[t])
             /\ loc'[t].ret = "false"
             /\ tunnels'[p].state = TERROR
             /\ tunnels'[p].err # "none"
             /\ lastEv' = [port |-> p, state |-> TERROR]]_vars

\* C17: a refused port-forward request of one rule affects only that rule:
\* the Session's state and handles are unchanged, the entries of all other
\* ports are unchanged, and start_all_tunnels goes on to the next enabled
\* rule after a start_tunnel that returned False.
C17_RefusalIsLocal ==
    /\ [][\A t \in Threads :
             (/\ Top(t) = "start_request" /\ stk'[t] # stk[t]
              /\ Top(t)' # "start_thread" /\ mTransport # 0) =>
                /\ UNCHANGED <<sState, sErr, sClient, sTransport>>
                /\ \A q \in Ports \ {RemotePort(loc[t].rule)} :
                      tunnels'[q] = tunnels[q]]_vars
    /\ [][\A t \in Threads :
             (/\ Top(t) = "start_all_next" /\ stk'[t] # stk[t]
              /\ loc[t].ret = "false"
              /\ NextEnabled(loc[t].ri + 1) <= Len(Rules)) =>
                /\ Top(t)' = "start_tunnel"
                /\ loc'[t].rule = NextEnabled(loc[t].ri + 1)]_vars

\* on a live session the request of the first rule was refused and the
\* second rule was started by the same start_all_tunnels
C17_Witness ==
    /\ sState = CONNECTED /\ tStat[1] = "up" /\ mTransport = 1
    /\ tunnels["p1"].state = TERROR
    /\ tunnels["p2"].state = ACTIVE
    /\ \E t \in Threads :
          /\ Top(t) = "api_idle"
          /\ loc[t].res = [p \in Ports |-> IF p = "p1" THEN "false" ELSE "true"]

\* C18: start_all_tunnels(rules) calls start_tunnel for the enabled rules
\* and for no other: each start_tunnel it calls is for the next enabled
\* rule, each of them returns a result, and the map it returns holds that
\* result for every enabled rule's port and nothing for a disabled rule.
C18_StartAllEnabledOnly ==
    [][\A t \in Threads :
          /\ (/\ stk'[t] # stk[t]
              /\ Len(stk'[t]) >= 2
              /\ stk'[t][1] = "start_tunnel" /\ stk'[t][2] = "start_all_next"
              /\ Top(t) \notin {"start_tunnel"}) =>
                /\ Rules[loc'[t].rule].enabled
                /\ \A r \in (loc[t].ri + 1)..(loc'[t].rule - 1) :
                      ~Rules[r].enabled
          /\ (Top(t) = "start_all_next" /\ stk'[t] # stk[t]) =>
                /\ loc[t].ret \in {"true", "false"}
                /\ loc'[t].res[RemotePort(loc[t].ri)] = loc[t].ret
                /\ Top(t)' # "start_tunnel" =>
                      \A r \in 1..Len(Rules) :
                         IF Rules[r].enabled
                         THEN loc'[t].res[RemotePort(r)] \in {"true", "false"}
                         ELSE loc'[t].res[RemotePort(r)] = "none"]_vars

\* C19: for each forward there is one accept worker: at no time are two
\* accept workers alive for the same remote port.
C19_OneWorkerPerPort ==
    \A p \in Ports :
       Cardinality({w \in 1..MaxW : wk[w].pc = "accept" /\ wk[w].port = p}) <= 1

\* the monitor thread m, at a wakeup, calls _handle_disconnect()
ConsidersLost(m) == MonitorWakeup(m) /\ Head(stk'[m]) = "handle_disconnect"

\* the monitor thread m, at a wakeup, does something
WakeupActs(m) == MonitorWakeup(m) /\ stk'[m] # stk[m]

\* C20: at a wakeup of the monitor (stop not set) the session is considered
\* lost, i.e. _handle_disconnect() is called, exactly when its state is
\* CONNECTED and the probe fails, or its state is DISCONNECTED or ERROR and
\* reconnect is enabled; otherwise (CONNECTED with a good probe, CONNECTING)
\* the wakeup does nothing.
C20_LostExactlyWhen ==
    \A m \in MonThreads :
       (Top(m) = "monitor_loop" /\ ~monStop) =>
          LET lost == \/ sState = CONNECTED /\ ~CheckConnection
                      \/ sState \in {DISCONNECTED, ERROR} /\ cfg.reconnect_enabled
          IN /\ (ENABLED ConsidersLost(m)) <=> lost
             /\ (ENABLED WakeupActs(m)) <=> lost

\* the monitor has found the probe of a Connected session failing and is
\* about to run _handle_disconnect()
C20_Witness ==
    \E m \in MonThreads :
       Top(m) = "handle_disconnect" /\ sState = CONNECTED /\ ~CheckConnection

\* the delay of the backoff schedule after n attempts: delay(0) is the
\* initial delay, delay(n) = min(max delay, initial delay * multiplier^n)
ScheduleDelay(n) ==
    IF n = 0 THEN cfg.initial_delay
    ELSE Min(cfg.max_delay, cfg.initial_delay * Pow(cfg.backoff_multiplier, n))

\* a monitor thread enters the backoff loop: stop_all_tunnels has returned
\* and the first delay is about to be computed
EntersBackoff(m) == Top(m) = "hd_delay" /\ loc[m].ret # "raise"

\* C21: every entry into the backoff loop starts at attempt 1, and the wait
\* before attempt k is delay(k-1): 1, 2, 4, 8, 10, 10 ... with initial delay
\* 1, multiplier 2 and maximum 10; also on an entry that follows an
\* abandoned episode.
C21_BackoffSchedule ==
    \A m \in MonThreads :
        /\ EntersBackoff(m) => curAttempt = 0
        /\ Top(m) = "hd_wait" => loc[m].delay = ScheduleDelay(curAttempt - 1)

\* C22: under every configuration with multiplier >= 1 the delay waited
\* before an attempt is at most the maximum delay, and no earlier delay of
\* the schedule is longer than it (non-decreasing until saturation).
C22_BackoffBound ==
    cfg.backoff_multiplier >= 1 =>
        \A m \in MonThreads :
            Top(m) = "hd_wait" =>
                /\ loc[m].delay <= cfg.max_delay
                /\ \A n \in 0..MaxAttempt :
                       CalculateBackoffDelay(n) = loc[m].delay =>
                           \A j \in 0..n : CalculateBackoffDelay(j)
                                               <= loc[m].delay

\* the monitor thread m abandons the episode in this step: the loop is left
\* by the max_attempts test, not by the stop event
Abandons(m) ==
    /\ Top(m) = "hd_loop"
    /\ ~monStop
    /\ stk'[m] = <<"monitor_loop">>

BindsAfterReconnect(m) == Top(m) = "hd_bind" /\ stk'[m] # stk[m]

CallsConnect(m) == Top(m) = "connect" /\ stk'[m] # stk[m]

\* the monitor thread m calls start_tunnel for a rule in this step
CallsStartTunnel(m) == Top(m) = "start_tunnel" /\ stk'[m] # stk[m]

\* C27: once the stop event is set the monitor thread calls no connect(),
\* binds no transport and starts no forward, and a wait it is in ends at
\* once without a connect attempt.
C27_StopCancels ==
    [][monStop =>
          \A m \in MonThreads :
              /\ ~CallsConnect(m)
              /\ ~BindsAfterReconnect(m)
              /\ ~CallsStartTunnel(m)
              /\ Top(m) = "hd_wait" /\ stk'[m] # stk[m]
                     => stk'[m] = <<"monitor_loop">>]_vars

\* C28: the passphrase given to start() is cleared on stop: a stopped
\* monitor holds no passphrase.
C28_PassphraseCleared == monState = STOPPED => ~passphrase

\* no two enabled rules of the configuration share a remote port
DistinctEnabledPorts ==
    \A i, j \in 1..Len(Rules) :
        i # j /\ Rules[i].enabled /\ Rules[j].enabled
            => Rules[i].remote_port # Rules[j].remote_port

\* connect_action is past its validation: the UI thread is in the calls the
\* action makes after it
PassedValidation ==
    \E i \in 1..Len(stk["ui"]) : stk["ui"][i] \in {"ca_connected", "ca_started"}

\* C29: validation rejects a configuration in which two enabled rules share
\* a remote port, so the monitor is never started with such rules.
C29_DuplicatesRejected ==
    /\ PassedValidation => Validate(cfg) = {} /\ DistinctEnabledPorts
    /\ monState # STOPPED => DistinctEnabledPorts

\* C30: the session replaces or clears its transport handle (in connect,
\* disconnect and cleanup) only while every forward is Inactive or Error.
C30_TransportChangeWhileQuiet ==
    [][sTransport' # sTransport =>
          \A p \in Ports : tunnels[p].state \in {"absent", INACTIVE, TERROR}]_vars

\* the thread t is inside stop_tunnel, past the entry check
InStopTunnel(t) ==
    Top(t) \in {"stop_event", "stop_event_set", "stop_thread", "stop_join",
                "stop_cancel", "stop_inactive"}

\* C31: a stop_tunnel(p) that found an entry sets the worker's stop event,
\* joins the worker, cancels the port forward, sets the state to Inactive
\* and emits the Inactive event, in this order: at the cancel no stop event
\* and no worker is registered for p any more, and the call returns only
\* from its last step, with p Inactive and the Inactive event emitted.
C31_StopOrder ==
    [][\A t \in Threads :
          /\ Top(t) = "stop_cancel" /\ stk'[t] # stk[t] =>
                stopEvents[loc[t].port] = 0 /\ tunnelThreads[loc[t].port] = 0
          /\ InStopTunnel(t) /\ stk'[t] = Tail(stk[t]) =>
                /\ Top(t) = "stop_inactive"
                /\ tunnels'[loc[t].port].state = INACTIVE
                /\ lastEv' = [port |-> loc[t].port, state |-> INACTIVE]]_vars

\* C32: the splice task of an accepted channel ends as soon as a direction
\* reports EOF or an I/O error: a channel that leaves the state open is
\* closed, with its local socket; the task does not loop on after an error.
C32_SpliceEndsOnError ==
    [][\A c \in 1..MaxChan :
          chan[c].st = "open" /\ chan'[c].st # "open" =>
              chan'[c].st = "closed"]_vars

\* C33: a failed dial of the local port closes the accepted channel and
\* leaves the forwards as they are: no state of a forward changes, no event
\* is emitted, and the worker that accepted goes on accepting unless its
\* stop event is set.
C33_DialFailureIsLocal ==
    [][\A c \in 1..MaxChan :
          chan[c].st = "queued" /\ chan'[c].st = "closed" =>
              /\ \A p \in Ports : tunnels'[p].state = tunnels[p].state
              /\ lastEv' = lastEv
              /\ obs' = obs
              /\ LET w == chan'[c].by IN
                    ~wk[w].ev => wk'[w].pc = "accept"]_vars

C33_Witness ==
    \E c \in 1..MaxChan :
        /\ chan[c].st = "closed"
        /\ chan[c].by # 0
        /\ wk[chan[c].by].pc = "accept"
        /\ tunnels[wk[chan[c].by].port].state = ACTIVE

\* C34: with both forwards Active on the bound transport, a forwarded
\* channel the server opened for remote port p is spliced only to the local
\* port of the rule whose remote port is p.
C34_ChannelToOwnRule ==
    (\A p \in Ports : tunnels[p].state = ACTIVE /\ tunnels[p].tr = mTransport)
        => \A c \in 1..MaxChan :
               chan[c].st \in {"open", "erred"} =>
                   RemotePort(chan[c].rule) = chan[c].dport

\* C35: start_tunnel and stop_tunnel of one port are totally ordered: when
\* no call is in progress the port is as some serial order leaves it: not
\* Inactive with a live accept worker or a registered stop event.
C35_SerialOutcome ==
    (\A t \in Threads : stk[t] \in {<<>>, <<"api_idle">>}) =>
        \A p \in Ports :
            tunnels[p].state = INACTIVE =>
                /\ stopEvents[p] = 0
                /\ ~\E w \in 1..MaxW : wk[w].port = p /\ wk[w].pc = "accept"

\* C36: what an observer reads of the session is a consistent pair: the state
\* is Error exactly when an error message is stored (never Error without a
\* message, never another state with the message of an earlier failure).
C36_ConsistentPair ==
    /\ sState = ERROR => sErr # "none"
    /\ sState # ERROR => sErr = "none"

\* C37: the state callbacks of the session run outside its critical section:
\* the step of _set_state that invokes the callbacks is never taken by a
\* thread that holds self._lock.
C37_CallbacksOutsideLock ==
    [][\A t \in Threads :
          (Top(t) = "set_state_msg" /\ stk'[t] # stk[t]) => sLock # t]_vars

\* C38: stop_tunnel calls that overlap on one port all return normally: no
\* stop_tunnel is left by an exception.
C38_StopsReturnNormally ==
    [][\A t \in Threads :
          (InStopTunnel(t) /\ stk'[t] = Tail(stk[t])) =>
              loc'[t].ret # "raise"]_vars

C40_DisabledMonitorIdle ==
    [][~cfg.reconnect_enabled =>
          /\ monState' # RECONNECTING
          /\ \A m \in MonThreads :
                /\ Top(m)' \in {"none", "monitor_loop", "handle_disconnect"}
                /\ stk'[m] # stk[m] /\ stk[m] # <<>> =>
                      UNCHANGED <<sessVars, tmVars, srvVars, monVars>>]_vars

\* reconnect is disabled, the probe of the Connected session has failed and
\* the monitor thread has called _handle_disconnect; the forward is Active
C40_Witness ==
    /\ ~cfg.reconnect_enabled
    /\ sState = CONNECTED
    /\ ~CheckConnection
    /\ \E m \in MonThreads : Top(m) = "handle_disconnect"
    /\ \E p \in Ports : tunnels[p].state = ACTIVE

====
